---- MODULE Spec2Model ----
(***************************************************************************)
(* A model of the stock-news pipeline: the crawler (crawler.py), the       *)
(* normalizer (data_processor.py) and the SQL emitter (sql_generator.py).  *)
(*                                                                         *)
(*   Spec      the crawler: runs of StockNewsCrawler.run, step by step at  *)
(*             its I/O points, with process stops and restarts             *)
(*   SpecPipe  process_all and generate_all_sql over a data directory      *)
(*   SpecSql   the SQL value rendering of one article, over all short      *)
(*             strings of a small alphabet                                 *)
(***************************************************************************)
EXTENDS Integers, Sequences, FiniteSets, TLC

VARIABLES
    \* ---- crawler (crawler.py) ----
    config,          \* self.config: query, days_back, max_total_articles
    ckptFile,        \* the checkpoint file on disk
    batchFiles,      \* the stock_news_batch_* files this run has written, in write order
    collected_urls,  \* self.collected_urls
    all_articles,    \* run: all_articles
    articles,        \* run: articles, the batch in hand
    total_results,   \* run: total_results
    batch_num,       \* run: batch_num
    date_offset,     \* run: date_offset
    strategy_idx,    \* run: position of the for loop in search_strategies
    original_query,  \* run: original_query
    phase,           \* run: "default", "strategy" or "date" part of run
    pc,              \* run: position inside the part
    \* ---- history of the crawler, read by the properties only ----
    last_call,       \* in the step after a request: the API's answer and the call's outcome
    requests,        \* number of requests issued in this run
    loaded_urls,     \* collected_urls right after load_checkpoint
    run_batches,     \* the non-empty batches fetched in this run
    ever_persisted,  \* every URL a complete checkpoint file ever held
    last_saved,      \* the set handed to the last completed save_checkpoint
    request_log,     \* the query and date offset of every request of this run, in order
    batch_unslept,   \* a batch was saved and checkpointed and no sleep has followed yet
    \* ---- normalizer and SQL emitter ----
    dataFiles,       \* contents of the batch files the stages scan
    proc,            \* outcome of StockNewsProcessor.process_all
    sqlgen,          \* outcome of SQLGenerator.generate_all_sql
    \* ---- SQL rendering of one article ----
    sqlArticle,      \* the article handed to the generators
    sqlOut           \* what generate_insert_sql / generate_upsert_sql rendered

crawlVars == <<config, ckptFile, batchFiles, collected_urls, all_articles,
               articles, total_results, batch_num, date_offset, strategy_idx,
               original_query, phase, pc, last_call, requests, loaded_urls,
               run_batches, ever_persisted, last_saved, request_log,
               batch_unslept>>
pipeVars == <<dataFiles, proc, sqlgen>>
sqlVars == <<sqlArticle, sqlOut>>
vars == <<crawlVars, pipeVars, sqlVars>>

(***************************************************************************)
(* Bounds of the model.                                                    *)
(***************************************************************************)
MaxUrls == 2
MaxItems == 2
MaxCap == 2
MaxDaysBack == 1
MaxFiles == 2
MaxRecords == 3
MaxStrLen == 3

Range(s) == {s[i] : i \in 1..Len(s)}
SeqsUpTo(S, n) == UNION {[1..k -> S] : k \in 0..n}

RECURSIVE SetToSeq(_)
SetToSeq(S) == IF S = {} THEN <<>>
               ELSE LET x == CHOOSE y \in S : TRUE
                    IN <<x>> \o SetToSeq(S \ {x})

(***************************************************************************)
(* The news API.                                                           *)
(***************************************************************************)
URLS == {<<"u", i>> : i \in 1..MaxUrls}
NoUrl == <<>>

\* One element of data['articles'].  kind "ok": a dict with a source dict;
\* "source_null": a dict whose source is null; "not_dict": not a dict at all.
Items == [url : URLS \cup {NoUrl}, kind : {"ok"}]
         \cup [url : URLS, kind : {"source_null"}]
         \cup [url : {NoUrl}, kind : {"not_dict"}]

\* What requests.get and response.json can give.
FailureKinds == {"transport", "http_error", "bad_json", "missing_field", "status_error"}
\* (totalResults is only copied: the model gives it the number of items)
Responses == {[kind |-> "ok", items |-> its, totalResults |-> Len(its)] :
                 its \in SeqsUpTo(Items, MaxItems)}
             \cup [kind : FailureKinds, items : {<<>>}, totalResults : {0}]

search_strategies == <<"stock market news", "financial news", "investment news",
                       "market analysis", "economic news", "trading news",
                       "business news">>
ConfiguredQuery == "stock market"

(***************************************************************************)
(* Checkpoint store: load_checkpoint, save_checkpoint.                     *)
(***************************************************************************)
NoFile == [state |-> "absent", urls |-> <<>>]
\* open(checkpoint_file, 'w'): the file is truncated before anything is written
TruncatedFile == [state |-> "partial", urls |-> <<>>]
\* json.dump of {'collected_urls': list(self.collected_urls), ...}
DumpCheckpoint(urls) == [state |-> "ok", urls |-> SetToSeq(urls)]

\* load_checkpoint reading a key the file does not have: .get gives []
LoadCheckpointWrongKey(file) == {}

\* load_checkpoint, called by __init__ on collected_urls = set()
LoadCheckpoint(file) ==
    IF file.state = "absent" THEN {}
    ELSE IF file.state = "ok" THEN Range(file.urls)
    ELSE {}          \* json.load raises: the except branch resets to set()

(***************************************************************************)
(* get_articles_batch.                                                     *)
(***************************************************************************)
\* (the other keys are copied from the item or the clock and read by nothing here)
ArticleRecord(item, offset) == [url |-> item.url]

\* The loop without the 'not in self.collected_urls' test of line 73.
RECURSIVE ProcessItemsNoSeenTest(_, _, _, _, _)
ProcessItemsNoSeenTest(items, k, arts, coll, offset) ==
    IF k > Len(items) THEN [exc |-> "none", articles |-> arts, collected |-> coll]
    ELSE LET it == items[k] IN
         IF it.kind = "not_dict"
         THEN [exc |-> "Exception", articles |-> arts, collected |-> coll]
         ELSE IF it.url # NoUrl
         THEN IF it.kind = "source_null"
              THEN [exc |-> "Exception", articles |-> arts, collected |-> coll]
              ELSE ProcessItemsNoSeenTest(items, k + 1,
                                          Append(arts, ArticleRecord(it, offset)),
                                          coll \cup {it.url}, offset)
         ELSE ProcessItemsNoSeenTest(items, k + 1, arts, coll, offset)

\* The for loop over data['articles'] (the loop body of lines 71-86), from
\* item k on.  exc: an exception left the loop.
RECURSIVE ProcessItems(_, _, _, _, _)
ProcessItems(items, k, arts, coll, offset) ==
    IF k > Len(items) THEN [exc |-> "none", articles |-> arts, collected |-> coll]
    ELSE LET it == items[k] IN
         IF it.kind = "not_dict"
         THEN [exc |-> "Exception", articles |-> arts, collected |-> coll]
         ELSE IF it.url # NoUrl /\ it.url \notin coll
         THEN IF it.kind = "source_null"
              THEN [exc |-> "Exception", articles |-> arts, collected |-> coll]
              ELSE ProcessItems(items, k + 1, Append(arts, ArticleRecord(it, offset)),
                                coll \cup {it.url}, offset)
         ELSE ProcessItems(items, k + 1, arts, coll, offset)

\* The try block of get_articles_batch.
TryBlock(r, coll, offset) ==
    IF r.kind \in {"transport", "http_error"}
    THEN [exc |-> "RequestException", articles |-> <<>>, total |-> 0, collected |-> coll]
    ELSE IF r.kind \in {"bad_json", "missing_field"}
    THEN [exc |-> "Exception", articles |-> <<>>, total |-> 0, collected |-> coll]
    ELSE IF r.kind = "status_error"
    \* the if is skipped and 'return articles, total_results' reads an unbound local
    THEN [exc |-> "Exception", articles |-> <<>>, total |-> 0, collected |-> coll]
    ELSE LET p == ProcessItems(r.items, 1, <<>>, coll, offset)
         IN [exc |-> p.exc, articles |-> p.articles, total |-> r.totalResults,
             collected |-> p.collected]

\* The except clauses without the catch-all 'except Exception'.
ExceptClausesRequestOnly(t) ==
    IF t.exc = "none"
    THEN [raised |-> FALSE, articles |-> t.articles, total |-> t.total, collected |-> t.collected]
    ELSE IF t.exc = "RequestException"
    THEN [raised |-> FALSE, articles |-> <<>>, total |-> 0, collected |-> t.collected]
    ELSE [raised |-> TRUE, articles |-> <<>>, total |-> 0, collected |-> t.collected]

\* The except clauses of get_articles_batch.
ExceptClauses(t) ==
    IF t.exc = "none"
    THEN [raised |-> FALSE, articles |-> t.articles, total |-> t.total, collected |-> t.collected]
    ELSE IF t.exc = "RequestException"
    THEN [raised |-> FALSE, articles |-> <<>>, total |-> 0, collected |-> t.collected]
    ELSE [raised |-> FALSE, articles |-> <<>>, total |-> 0, collected |-> t.collected]

get_articles_batch(r, coll, offset) == ExceptClauses(TryBlock(r, coll, offset))

NoCall == [kind |-> "none", exc |-> "none", raised |-> FALSE, total |-> 0]

(***************************************************************************)
(* StockNewsCrawler.__init__ and run.                                      *)
(***************************************************************************)
Configs == [query : {ConfiguredQuery}, days_back : 0..MaxDaysBack,
            max_total_articles : 0..MaxCap]

PipeIdle == /\ dataFiles = <<>>
            /\ proc = "off"
            /\ sqlgen = "off"
SqlIdle == /\ sqlArticle = "off"
           /\ sqlOut = "off"

\* __init__ on a machine with no checkpoint file, and the first lines of run
Init ==
    /\ config \in Configs
    /\ ckptFile = NoFile
    /\ batchFiles = <<>>
    /\ collected_urls = LoadCheckpoint(NoFile)
    /\ all_articles = <<>>
    /\ articles = <<>>
    /\ total_results = 0
    /\ batch_num = 1
    /\ date_offset = 0
    /\ strategy_idx = 1
    /\ original_query = ""
    /\ phase = "default"
    /\ pc = "fetch"
    /\ last_call = NoCall
    /\ requests = 0
    /\ loaded_urls = {}
    /\ run_batches = <<>>
    /\ ever_persisted = {}
    /\ last_saved = {}
    /\ request_log = <<>>
    /\ batch_unslept = FALSE
    /\ PipeIdle
    /\ SqlIdle

\* What every call of get_articles_batch in run does to the crawler: the
\* request, the answer, and 'if articles: all_articles.extend(articles)'.
\* next_pc is where run goes on when the batch is empty; keep_total: the call
\* site drops the total ('articles, _ = ...').
CallGetArticlesBatch(offset, next_pc, keep_total) ==
    \E r \in Responses :
        LET g == get_articles_batch(r, collected_urls, offset) IN
        /\ last_call' = [kind |-> r.kind, exc |-> TryBlock(r, collected_urls, offset).exc,
                         raised |-> g.raised, total |-> g.total]
        /\ requests' = requests + 1
        /\ collected_urls' = g.collected
        /\ IF g.raised
           THEN /\ pc' = "raised"
                /\ UNCHANGED <<articles, total_results, all_articles, run_batches>>
           ELSE /\ articles' = g.articles
                /\ total_results' = IF keep_total THEN total_results ELSE g.total
                /\ IF g.articles # <<>>
                   THEN /\ all_articles' = all_articles \o g.articles
                        /\ run_batches' = Append(run_batches, g.articles)
                        /\ pc' = "save_json"
                   ELSE /\ pc' = next_pc
                        /\ UNCHANGED <<all_articles, run_batches>>

\* line 123: articles, total_results = self.get_articles_batch(1, 0)
FetchDefault ==
    /\ phase = "default" /\ pc = "fetch"
    /\ CallGetArticlesBatch(0, "fetch", FALSE)
    /\ request_log' = Append(request_log, [query |-> config.query, date_offset |-> 0])
    /\ IF pc' = "fetch"
       THEN /\ phase' = "strategy"
            /\ original_query' = config.query
            /\ strategy_idx' = 1
       ELSE UNCHANGED <<phase, original_query, strategy_idx>>
    /\ UNCHANGED <<config, ckptFile, batchFiles, batch_num, date_offset,
                   loaded_urls, ever_persisted, last_saved, batch_unslept>>

\* the for loop goes into its body: a strategy is left and line 145 does not break
StrategyContinues ==
    /\ strategy_idx <= Len(search_strategies)
    /\ ~(Len(all_articles) >= config.max_total_articles)

\* the while condition with the cap compared by <=
DateContinuesOffByOne ==
    /\ Len(all_articles) <= config.max_total_articles
    /\ date_offset <= config.days_back

\* line 167: the while condition
DateContinues ==
    /\ Len(all_articles) < config.max_total_articles
    /\ date_offset <= config.days_back

\* lines 144-151: one iteration of the strategy loop up to its request
StrategyFetch ==
    /\ phase = "strategy" /\ pc = "fetch"
    /\ StrategyContinues
    /\ config' = [config EXCEPT !.query = search_strategies[strategy_idx]]
    /\ CallGetArticlesBatch(0, "sleep", TRUE)
    /\ request_log' = Append(request_log, [query |-> config'.query, date_offset |-> 0])
    /\ UNCHANGED <<ckptFile, batchFiles, batch_num, date_offset,
                   strategy_idx, original_query, phase, loaded_urls,
                   ever_persisted, last_saved, batch_unslept>>

\* the end of the loop without line 163: the query of the last strategy stays
StrategyExitNoRestore ==
    /\ phase = "strategy" /\ pc = "fetch"
    /\ ~StrategyContinues
    /\ config' = config
    /\ date_offset' = 1
    /\ phase' = "date"
    /\ last_call' = NoCall
    /\ UNCHANGED <<ckptFile, batchFiles, collected_urls, all_articles, articles,
                   total_results, batch_num, strategy_idx, original_query, pc,
                   requests, loaded_urls, run_batches,
                   ever_persisted, last_saved, request_log, batch_unslept>>

\* the loop ends (list exhausted, or break at line 146); lines 163 and 166
StrategyExit ==
    /\ phase = "strategy" /\ pc = "fetch"
    /\ ~StrategyContinues
    /\ config' = [config EXCEPT !.query = original_query]
    /\ date_offset' = 1
    /\ phase' = "date"
    /\ last_call' = NoCall
    /\ UNCHANGED <<ckptFile, batchFiles, collected_urls, all_articles, articles,
                   total_results, batch_num, strategy_idx, original_query, pc,
                   requests, loaded_urls, run_batches,
                   ever_persisted, last_saved, request_log, batch_unslept>>

\* the while loop with 'continue' taken without 'date_offset += 1' (line 174)
DateFetchNoIncrement ==
    /\ phase = "date" /\ pc = "fetch"
    /\ DateContinues
    /\ CallGetArticlesBatch(date_offset, "fetch", FALSE)
    /\ request_log' = Append(request_log, [query |-> config.query,
                                           date_offset |-> date_offset])
    /\ date_offset' = date_offset
    /\ UNCHANGED <<config, ckptFile, batchFiles, batch_num, strategy_idx,
                   original_query, phase, loaded_urls, ever_persisted,
                   last_saved, batch_unslept>>

\* lines 167-175: one iteration of the while loop up to 'continue'
DateFetch ==
    /\ phase = "date" /\ pc = "fetch"
    /\ DateContinues
    /\ CallGetArticlesBatch(date_offset, "fetch", FALSE)
    /\ request_log' = Append(request_log, [query |-> config.query,
                                           date_offset |-> date_offset])
    /\ date_offset' = IF pc' = "fetch" THEN date_offset + 1 ELSE date_offset
    /\ UNCHANGED <<config, ckptFile, batchFiles, batch_num, strategy_idx,
                   original_query, phase, loaded_urls, ever_persisted,
                   last_saved, batch_unslept>>

\* the while condition fails; lines 189-193
DateExit ==
    /\ phase = "date" /\ pc = "fetch"
    /\ ~DateContinues
    /\ pc' = "done"
    /\ last_call' = NoCall
    /\ UNCHANGED <<config, ckptFile, batchFiles, collected_urls, all_articles,
                   articles, total_results, batch_num, date_offset, strategy_idx,
                   original_query, phase, requests, loaded_urls,
                   run_batches, ever_persisted, last_saved, request_log, batch_unslept>>

\* save_json(articles, batch_num)
BatchFile(arts, num) == [batch_num |-> num, articles |-> arts]

SaveJson ==
    /\ pc = "save_json"
    /\ batchFiles' = Append(batchFiles, BatchFile(articles, batch_num))
    /\ pc' = "ckpt_open"
    /\ last_call' = NoCall
    /\ UNCHANGED <<config, ckptFile, collected_urls, all_articles, articles,
                   total_results, batch_num, date_offset, strategy_idx,
                   original_query, phase, requests, loaded_urls,
                   run_batches, ever_persisted, last_saved, request_log, batch_unslept>>

\* save_checkpoint, line 35: open(self.checkpoint_file, 'w')
CkptOpen ==
    /\ pc = "ckpt_open"
    /\ ckptFile' = TruncatedFile
    /\ pc' = "ckpt_dump"
    /\ last_call' = NoCall
    /\ UNCHANGED <<config, batchFiles, collected_urls, all_articles, articles,
                   total_results, batch_num, date_offset, strategy_idx,
                   original_query, phase, requests, loaded_urls,
                   run_batches, ever_persisted, last_saved, request_log, batch_unslept>>

\* save_checkpoint, line 36 and the close of the file; then what follows the
\* call in run: batch_num += 1 and, by the part of run, lines 142, 186
CkptDump ==
    /\ pc = "ckpt_dump"
    /\ ckptFile' = DumpCheckpoint(collected_urls)
    /\ ever_persisted' = ever_persisted \cup Range(ckptFile'.urls)
    /\ last_saved' = collected_urls
    /\ batch_num' = batch_num + 1
    /\ IF phase = "default"
       THEN /\ phase' = "strategy"
            /\ original_query' = config.query
            /\ strategy_idx' = 1
            /\ pc' = "fetch"
            /\ UNCHANGED date_offset
       ELSE IF phase = "strategy"
       THEN /\ pc' = "sleep"
            /\ UNCHANGED <<phase, original_query, strategy_idx, date_offset>>
       ELSE /\ date_offset' = date_offset + 1
            /\ pc' = "sleep"
            /\ UNCHANGED <<phase, original_query, strategy_idx>>
    /\ last_call' = NoCall
    /\ batch_unslept' = TRUE
    /\ UNCHANGED <<config, batchFiles, collected_urls, all_articles, articles,
                   total_results, requests, loaded_urls, run_batches,
                   request_log>>

\* time.sleep(2), lines 160 and 187, and the step to the next iteration
Sleep ==
    /\ pc = "sleep"
    /\ pc' = "fetch"
    /\ strategy_idx' = IF phase = "strategy" THEN strategy_idx + 1 ELSE strategy_idx
    /\ batch_unslept' = FALSE
    /\ last_call' = NoCall
    /\ UNCHANGED <<config, ckptFile, batchFiles, collected_urls, all_articles,
                   articles, total_results, batch_num, date_offset,
                   original_query, phase, requests, loaded_urls,
                   run_batches, ever_persisted, last_saved, request_log>>

\* The process ends here (run returned or raised, or the process is stopped
\* from outside between two steps) and the next invocation starts:
\* StockNewsCrawler() on the checkpoint file the last one left, and the first
\* lines of run.  (The batch files of earlier runs stay on disk; the crawler
\* never reads them, and batchFiles starts over.)
NewRun ==
    /\ config' = [config EXCEPT !.query = ConfiguredQuery]
    /\ collected_urls' = LoadCheckpoint(ckptFile)
    /\ loaded_urls' = collected_urls'
    /\ all_articles' = <<>>
    /\ articles' = <<>>
    /\ total_results' = 0
    /\ batch_num' = 1
    /\ date_offset' = 0
    /\ strategy_idx' = 1
    /\ original_query' = ""
    /\ phase' = "default"
    /\ pc' = "fetch"
    /\ last_call' = NoCall
    /\ requests' = 0
    /\ run_batches' = <<>>
    /\ batchFiles' = <<>>
    /\ request_log' = <<>>
    /\ batch_unslept' = FALSE
    /\ UNCHANGED <<ckptFile, ever_persisted, last_saved>>

Next ==
    \/ (FetchDefault /\ UNCHANGED <<pipeVars, sqlVars>>)
    \/ (StrategyFetch /\ UNCHANGED <<pipeVars, sqlVars>>)
    \/ (StrategyExit /\ UNCHANGED <<pipeVars, sqlVars>>)
    \/ (DateFetch /\ UNCHANGED <<pipeVars, sqlVars>>)
    \/ (DateExit /\ UNCHANGED <<pipeVars, sqlVars>>)
    \/ (SaveJson /\ UNCHANGED <<pipeVars, sqlVars>>)
    \/ (CkptOpen /\ UNCHANGED <<pipeVars, sqlVars>>)
    \/ (CkptDump /\ UNCHANGED <<pipeVars, sqlVars>>)
    \/ (Sleep /\ UNCHANGED <<pipeVars, sqlVars>>)
    \/ (NewRun /\ UNCHANGED <<pipeVars, sqlVars>>)

Spec == Init /\ [][Next]_vars

\* One invocation of run.py from start to return: the steps of run, no stop
\* from outside.  The interpreter keeps executing the single thread, and
\* every request, file write and sleep returns, so a step that can be taken
\* is taken.
NextRun ==
    \/ (FetchDefault /\ UNCHANGED <<pipeVars, sqlVars>>)
    \/ (StrategyFetch /\ UNCHANGED <<pipeVars, sqlVars>>)
    \/ (StrategyExit /\ UNCHANGED <<pipeVars, sqlVars>>)
    \/ (DateFetch /\ UNCHANGED <<pipeVars, sqlVars>>)
    \/ (DateExit /\ UNCHANGED <<pipeVars, sqlVars>>)
    \/ (SaveJson /\ UNCHANGED <<pipeVars, sqlVars>>)
    \/ (CkptOpen /\ UNCHANGED <<pipeVars, sqlVars>>)
    \/ (CkptDump /\ UNCHANGED <<pipeVars, sqlVars>>)
    \/ (Sleep /\ UNCHANGED <<pipeVars, sqlVars>>)

SpecRun == Init /\ [][NextRun]_vars /\ WF_vars(NextRun)

(***************************************************************************)
(* Python values and strings.  A string is a sequence of one-character     *)
(* strings; a value carries its type: None, str, bool or int (v holds the  *)
(* text of str(value)).                                                    *)
(***************************************************************************)
PyNone == [t |-> "none", v |-> <<>>]
PyStr(s) == [t |-> "str", v |-> s]
PyBool(b) == [t |-> "bool", v |-> IF b THEN <<"T","r","u","e">> ELSE <<"F","a","l","s","e">>]
RECURSIVE Decimal(_)
Decimal(n) == IF n < 10 THEN <<<<"0","1","2","3","4","5","6","7","8","9">>[n + 1]>>
              ELSE Decimal(n \div 10) \o Decimal(n % 10)
PyInt(n) == [t |-> "int", v |-> Decimal(n)]
\* bool(value), 'not value' for None and strings
Truthy(x) == x.t = "str" /\ x.v # <<>>

IsSpace(c) == c \in {" ", "\t", "\n"}
IsDigit(c) == c \in {"0","1","2","3","4","5","6","7","8","9"}

\* str.split(): the maximal runs of non-whitespace
RECURSIVE SplitAcc(_, _, _, _)
SplitAcc(s, i, cur, acc) ==
    IF i > Len(s) THEN (IF cur = <<>> THEN acc ELSE Append(acc, cur))
    ELSE IF IsSpace(s[i])
    THEN SplitAcc(s, i + 1, <<>>, IF cur = <<>> THEN acc ELSE Append(acc, cur))
    ELSE SplitAcc(s, i + 1, Append(cur, s[i]), acc)
Split(s) == SplitAcc(s, 1, <<>>, <<>>)

\* ' '.join(words)
RECURSIVE JoinSpace(_)
JoinSpace(ws) == IF ws = <<>> THEN <<>>
                 ELSE IF Len(ws) = 1 THEN ws[1]
                 ELSE ws[1] \o <<" ">> \o JoinSpace(Tail(ws))

\* str.strip()
RECURSIVE LStrip(_)
LStrip(s) == IF s # <<>> /\ IsSpace(Head(s)) THEN LStrip(Tail(s)) ELSE s
RECURSIVE RStrip(_)
RStrip(s) == IF s # <<>> /\ IsSpace(s[Len(s)]) THEN RStrip(SubSeq(s, 1, Len(s) - 1)) ELSE s
Strip(s) == RStrip(LStrip(s))

\* text.replace("'", "''")
RECURSIVE DoubleQuotes(_)
DoubleQuotes(s) == IF s = <<>> THEN <<>>
                   ELSE (IF Head(s) = "'" THEN <<"'", "'">> ELSE <<Head(s)>>)
                        \o DoubleQuotes(Tail(s))

\* position of the first element of s, from i on, that is in cs; Len(s) + 1 if none
RECURSIVE FindAny(_, _, _)
FindAny(s, cs, i) == IF i > Len(s) THEN Len(s) + 1
                     ELSE IF s[i] \in cs THEN i ELSE FindAny(s, cs, i + 1)

\* urllib.parse.urlparse(url).netloc: leading blanks are dropped, a scheme
\* (a letter, then letters, digits, '+', '-', '.', up to the first ':') is
\* split off, and after '//' the netloc runs to the first '/', '?' or '#'.
IsSchemeChar(c) == c \in {"a","b","c","h","p","s","t","w","+","-","."} \/ IsDigit(c)
IsLetter(c) == c \in {"a","b","c","h","p","s","t","w"}
UrlNetloc(u) ==
    LET url == LStrip(u)
        colon == FindAny(url, {":"}, 1)
        hasScheme == /\ colon <= Len(url) /\ colon > 1
                     /\ IsLetter(url[1])
                     /\ \A k \in 1..(colon - 1) : IsSchemeChar(url[k])
        rest == IF hasScheme THEN SubSeq(url, colon + 1, Len(url)) ELSE url
    IN IF Len(rest) >= 2 /\ rest[1] = "/" /\ rest[2] = "/"
       THEN SubSeq(rest, 3, FindAny(rest, {"/", "?", "#"}, 3) - 1)
       ELSE <<>>

\* The date-times both stages accept: YYYY-MM-DDTHH:MM:SS with an optional
\* fraction, Z or offset after it (datetime.fromisoformat), or, without a
\* 'T', exactly YYYY-MM-DD HH:MM:SS (strptime).
DateTimeShape(s, sep) ==
    /\ Len(s) >= 19
    /\ \A k \in {1,2,3,4,6,7,9,10,12,13,15,16,18,19} : IsDigit(s[k])
    /\ s[5] = "-" /\ s[8] = "-" /\ s[11] = sep /\ s[14] = ":" /\ s[17] = ":"
ParsesAsDateTime(s) ==
    IF "T" \in Range(s)
    THEN /\ DateTimeShape(s, "T")
         /\ \/ Len(s) = 19
            \/ s[20] \in {"Z", ".", "+", "-"}
    ELSE DateTimeShape(s, " ") /\ Len(s) = 19
\* dt.strftime('%Y-%m-%d %H:%M:%S') and dt.strftime('%Y-%m-%d') of the parsed value
FormatDateTime(s) == SubSeq(s, 1, 10) \o <<" ">> \o SubSeq(s, 12, 19)
FormatDate(s) == SubSeq(s, 1, 10)

(***************************************************************************)
(* Batch files as the two stages read them.                                *)
(***************************************************************************)
ArticleKeys == {"title", "description", "url", "source", "published_at",
                "author", "image_url", "scraped_at", "date_range"}

\* One element of the list load_json_files returns: a dict (an article), or
\* the JSON scalar a file held instead.
Dict(a) == [kind |-> "dict", art |-> a]
BlankArticle == [k \in ArticleKeys |-> PyStr(<<>>)]
Scalar(kind) == [kind |-> kind, art |-> BlankArticle]

\* load_json_files, data_processor.py lines 26-36 for one file
LoadOneFile(f) ==
    IF f.kind = "corrupt" THEN <<>>                      \* json.load raises
    ELSE IF f.kind = "list" THEN [k \in 1..Len(f.items) |-> Dict(f.items[k])]
    ELSE IF f.kind = "object" THEN <<Dict(f.items[1])>>  \* append(data)
    ELSE <<Scalar(f.kind)>>     \* append(data); len(data) may raise after it

RECURSIVE load_json_files(_)
load_json_files(files) ==
    IF files = <<>> THEN <<>>
    ELSE LoadOneFile(Head(files)) \o load_json_files(Tail(files))

(***************************************************************************)
(* StockNewsProcessor (data_processor.py).                                 *)
(***************************************************************************)
proc_clean_text(text) ==
    IF ~Truthy(text) \/ Strip(text.v) = <<>> THEN PyStr(<<>>)
    ELSE PyStr(JoinSpace(Split(Strip(text.v))))

proc_normalize_datetime(dt) ==
    IF ~Truthy(dt) THEN PyStr(<<>>)
    ELSE IF ParsesAsDateTime(dt.v) THEN PyStr(FormatDateTime(dt.v))
    ELSE dt                                  \* except: return dt_string

proc_extract_domain(url) ==
    IF ~Truthy(url) THEN PyStr(<<>>) ELSE PyStr(UrlNetloc(url.v))

extract_date_only(dt) ==
    IF ~Truthy(dt) THEN PyStr(<<>>)
    ELSE IF ParsesAsDateTime(dt.v) THEN PyStr(FormatDate(dt.v))
    ELSE PyStr(<<>>)

count_words(text) == IF ~Truthy(text) THEN 0 ELSE Len(Split(text.v))

\* the dict built in the loop of normalize_data
NormalizedArticle(a) ==
    [title |-> proc_clean_text(a.title),
     description |-> proc_clean_text(a.description),
     url |-> a.url,
     source |-> a.source,
     published_at |-> proc_normalize_datetime(a.published_at),
     author |-> proc_clean_text(a.author),
     image_url |-> a.image_url,
     scraped_at |-> proc_normalize_datetime(a.scraped_at),
     date_range |-> a.date_range,
     has_image |-> PyBool(Truthy(a.image_url)),
     has_author |-> PyBool(Truthy(a.author)),
     domain |-> proc_extract_domain(a.url),
     published_date |-> extract_date_only(a.published_at),
     scraped_date |-> extract_date_only(a.scraped_at),
     word_count |-> PyInt(count_words(a.description))]

\* normalize_data: article.get raises AttributeError on an element that is no dict
normalize_data(elems) ==
    IF \E k \in 1..Len(elems) : elems[k].kind # "dict"
    THEN [exc |-> TRUE, rows |-> <<>>]
    ELSE [exc |-> FALSE, rows |-> [k \in 1..Len(elems) |-> NormalizedArticle(elems[k].art)]]

\* pd.to_datetime(column, errors='coerce') on one value
NaT == [t |-> "nat", v |-> <<>>]
ToDatetime(x) ==
    IF x.t = "str" /\ Len(x.v) = 19 /\ ParsesAsDateTime(x.v) THEN x ELSE NaT
ToDate(x) ==
    IF x.t = "str" /\ Len(x.v) = 10 /\ ParsesAsDateTime(x.v \o <<" ","0","0",":","0","0",":","0","0">>)
    THEN x ELSE NaT
CoerceRow(r) == [r EXCEPT !.published_at = ToDatetime(r.published_at),
                          !.scraped_at = ToDatetime(r.scraped_at),
                          !.published_date = ToDate(r.published_date),
                          !.scraped_date = ToDate(r.scraped_date)]

\* drop_duplicates(subset=['url'], keep='last')
DropDuplicatesKeepLast(rows) ==
    LET keep(k) == \A j \in (k + 1)..Len(rows) : rows[j].url # rows[k].url
    IN SelectSeq([k \in 1..Len(rows) |-> <<k, rows[k]>>], LAMBDA e : keep(e[1]))

\* df.drop_duplicates(subset=['url'], keep='first'): the rows, each with its
\* position in the input, that no earlier row shares its url with
DropDuplicates(rows) ==
    LET keep(k) == \A j \in 1..(k - 1) : rows[j].url # rows[k].url
    IN SelectSeq([k \in 1..Len(rows) |-> <<k, rows[k]>>], LAMBDA e : keep(e[1]))

\* create_dataframe
create_dataframe(normalized) ==
    LET coerced == [k \in 1..Len(normalized) |-> CoerceRow(normalized[k])]
        kept == DropDuplicates(coerced)
    IN [k \in 1..Len(kept) |-> kept[k][2]]

\* generate_summary_stats; df['source'] raises KeyError on a frame without columns
generate_summary_stats(df) ==
    IF df = <<>> THEN [exc |-> TRUE, total_articles |-> 0, unique_sources |-> 0,
                       articles_with_images |-> 0, articles_with_authors |-> 0]
    ELSE [exc |-> FALSE,
          total_articles |-> Len(df),
          unique_sources |-> Cardinality({df[k].source : k \in 1..Len(df)} \ {PyNone}),
          articles_with_images |-> Cardinality({k \in 1..Len(df) : df[k].has_image = PyBool(TRUE)}),
          articles_with_authors |-> Cardinality({k \in 1..Len(df) : df[k].has_author = PyBool(TRUE)})]

ProcOff == [state |-> "off", loaded |-> <<>>, normalized |-> <<>>, df |-> <<>>,
            total_articles |-> 0, written |-> {}, returned |-> "nothing"]

\* process_all
process_all(files) ==
    LET loaded == load_json_files(files)
        n == normalize_data(loaded)
        df == create_dataframe(n.rows)
        stats == generate_summary_stats(df)
    IN IF loaded = <<>>
       THEN [ProcOff EXCEPT !.state = "no_articles"]
       ELSE IF n.exc \/ stats.exc
       THEN [ProcOff EXCEPT !.state = "raised", !.loaded = loaded]
       ELSE [state |-> "done", loaded |-> loaded, normalized |-> n.rows, df |-> df,
             total_articles |-> stats.total_articles,
             written |-> {"stock_news_processed.csv", "summary_stats.json"},
             returned |-> "df, stats"]

(***************************************************************************)
(* SQLGenerator (sql_generator.py).                                        *)
(***************************************************************************)
sql_clean_text(text) ==
    IF ~Truthy(text) \/ Strip(text.v) = <<>> THEN PyNone
    ELSE PyStr(DoubleQuotes(JoinSpace(Split(Strip(text.v)))))

sql_normalize_datetime(dt) ==
    IF ~Truthy(dt) THEN PyNone
    ELSE IF ParsesAsDateTime(dt.v) THEN PyStr(FormatDateTime(dt.v))
    ELSE PyNone

sql_extract_domain(url) ==
    IF ~Truthy(url) THEN PyNone ELSE PyStr(UrlNetloc(url.v))

escape_sql_value(value) ==
    IF value.t = "none" THEN <<"N","U","L","L">>
    ELSE IF value.t = "str" THEN <<"'">> \o value.v \o <<"'">>
    ELSE IF value.t = "bool"
    THEN (IF value = PyBool(TRUE) THEN <<"T","R","U","E">> ELSE <<"F","A","L","S","E">>)
    ELSE value.v

transform_article(a) ==
    [url |-> sql_clean_text(a.url),
     title |-> sql_clean_text(a.title),
     description |-> sql_clean_text(a.description),
     source |-> sql_clean_text(a.source),
     author |-> sql_clean_text(a.author),
     published_at |-> sql_normalize_datetime(a.published_at),
     scraped_at |-> sql_normalize_datetime(a.scraped_at),
     image_url |-> sql_clean_text(a.image_url),
     domain |-> sql_extract_domain(a.url),
     word_count |-> PyInt(count_words(a.description)),
     has_image |-> PyBool(Truthy(a.image_url)),
     has_author |-> PyBool(Truthy(a.author))]

SqlColumns == <<"url", "title", "description", "source", "author", "published_at",
                "scraped_at", "image_url", "domain", "word_count", "has_image",
                "has_author">>

\* the row_values of one article, lines 137-140
RowValues(a) ==
    LET transformed == transform_article(a)
    IN [c \in 1..Len(SqlColumns) |-> escape_sql_value(transformed[SqlColumns[c]])]

NoStatement == [exc |-> FALSE, text |-> "", rows |-> <<>>, on_conflict |-> ""]

\* generate_insert_sql; transform_article raises on an element that is no dict
generate_insert_sql(elems) ==
    IF elems = <<>> THEN NoStatement
    ELSE IF \E k \in 1..Len(elems) : elems[k].kind # "dict"
    THEN [NoStatement EXCEPT !.exc = TRUE]
    ELSE [exc |-> FALSE, text |-> "INSERT INTO stock_articles",
          rows |-> [k \in 1..Len(elems) |-> RowValues(elems[k].art)],
          on_conflict |-> "DO NOTHING"]

\* generate_upsert_sql
generate_upsert_sql(elems) ==
    IF elems = <<>> THEN NoStatement
    ELSE IF \E k \in 1..Len(elems) : elems[k].kind # "dict"
    THEN [NoStatement EXCEPT !.exc = TRUE]
    ELSE [exc |-> FALSE, text |-> "INSERT INTO stock_articles",
          rows |-> [k \in 1..Len(elems) |-> RowValues(elems[k].art)],
          on_conflict |-> "DO UPDATE SET"]

SqlOff == [state |-> "off", loaded |-> <<>>, insert |-> NoStatement,
           upsert |-> NoStatement, written |-> {}, returned |-> "nothing"]

\* generate_all_sql without the 'if not articles' return of lines 189-191
generate_all_sql_unguarded(files) ==
    LET loaded == load_json_files(files)
        ins == generate_insert_sql(loaded)
        ups == generate_upsert_sql(loaded)
    IN IF ins.exc
       \* create_table_*.sql is saved before generate_insert_sql is called
       THEN [SqlOff EXCEPT !.state = "raised", !.loaded = loaded,
                           !.written = {"create_table.sql"}]
       ELSE [state |-> "done", loaded |-> loaded, insert |-> ins, upsert |-> ups,
             written |-> {"create_table.sql", "insert_articles.sql",
                          "upsert_articles.sql", "complete_sql.sql"},
             returned |-> "files"]

\* generate_all_sql
generate_all_sql(files) ==
    LET loaded == load_json_files(files)
        ins == generate_insert_sql(loaded)
        ups == generate_upsert_sql(loaded)
    IN IF loaded = <<>>
       THEN [SqlOff EXCEPT !.state = "no_articles"]
       ELSE IF ins.exc
       \* create_table_*.sql is saved before generate_insert_sql is called
       THEN [SqlOff EXCEPT !.state = "raised", !.loaded = loaded,
                           !.written = {"create_table.sql"}]
       ELSE [state |-> "done", loaded |-> loaded, insert |-> ins, upsert |-> ups,
             written |-> {"create_table.sql", "insert_articles.sql",
                          "upsert_articles.sql", "complete_sql.sql"},
             returned |-> "files"]

(***************************************************************************)
(* SpecPipe: the two downstream stages over a data directory.              *)
(***************************************************************************)
IsoStamp == <<"2","0","2","4","-","0","1","-","0","2","T","0","3",":","0","4",":","0","5","Z">>
PlainStamp == <<"2","0","2","4","-","0","1","-","0","2"," ","0","3",":","0","4",":","0","5">>

\* an article as the crawler writes it: url and title vary
SampleArticle(url, title) ==
    [BlankArticle EXCEPT !.url = PyStr(url), !.title = PyStr(title),
                         !.description = PyStr(<<"a", " ", " ", "b">>),
                         !.source = PyStr(<<"s">>),
                         !.published_at = PyStr(IsoStamp),
                         !.scraped_at = PyStr(PlainStamp)]
UrlA == <<"h","t","t","p",":","/","/","a",".","c","/","1">>
UrlB == <<"h","t","t","p",":","/","/","b",".","c","/","2">>
PipeArticles == {SampleArticle(UrlA, <<"T","1">>), SampleArticle(UrlA, <<"T","2">>),
                 SampleArticle(UrlB, <<" ","T","1">>)}

\* what a stock_news_batch_*.json file may hold: text that is no JSON, a JSON
\* null, number or string, one JSON object, or a list of articles (here of at
\* most r of them)
FileContents(r) ==
    [kind : {"corrupt", "null", "number", "string"}, items : {<<>>}]
    \cup [kind : {"object"}, items : {<<a>> : a \in IF r >= 1 THEN PipeArticles ELSE {}}]
    \cup [kind : {"list"}, items : SeqsUpTo(PipeArticles, r)]

\* the data directories of at most f batch files that hold at most r records
RECURSIVE Directories(_, _)
Directories(f, r) ==
    IF f = 0 THEN {<<>>}
    ELSE {<<>>} \cup UNION {{<<c>> \o d : d \in Directories(f - 1, r - Len(c.items))} :
                               c \in FileContents(r)}

InitPipe ==
    /\ dataFiles \in Directories(MaxFiles, MaxRecords)
    /\ proc = ProcOff
    /\ sqlgen = SqlOff
    /\ SqlIdle
    /\ config = "off" /\ ckptFile = "off" /\ batchFiles = "off"
    /\ collected_urls = "off" /\ all_articles = "off" /\ articles = "off"
    /\ total_results = "off" /\ batch_num = "off" /\ date_offset = "off"
    /\ strategy_idx = "off" /\ original_query = "off" /\ phase = "off"
    /\ pc = "off" /\ last_call = "off" /\ requests = "off"
    /\ loaded_urls = "off" /\ run_batches = "off" /\ ever_persisted = "off"
    /\ last_saved = "off" /\ request_log = "off" /\ batch_unslept = "off"

\* python run.py --process-only
ProcessAll ==
    /\ proc.state = "off"
    /\ proc' = process_all(dataFiles)
    /\ UNCHANGED <<dataFiles, sqlgen>>

\* python run.py --sql-only
GenerateAllSql ==
    /\ sqlgen.state = "off"
    /\ sqlgen' = generate_all_sql(dataFiles)
    /\ UNCHANGED <<dataFiles, proc>>

NextPipe ==
    \/ (ProcessAll /\ UNCHANGED <<crawlVars, sqlVars>>)
    \/ (GenerateAllSql /\ UNCHANGED <<crawlVars, sqlVars>>)

SpecPipe == InitPipe /\ [][NextPipe]_vars

(***************************************************************************)
(* SpecSql: the VALUES of one article, one field of which is any None or   *)
(* any short string.                                                       *)
(***************************************************************************)
Alphabet == {"a", "'", " ", "/", ":"}
FieldValues == {PyNone, PyStr(IsoStamp), PyStr(PlainStamp)}
               \cup {PyStr(x) : x \in SeqsUpTo(Alphabet, MaxStrLen)}
BaseArticle == SampleArticle(UrlA, <<"T","1">>)
TextKeys == ArticleKeys \ {"date_range"}

InitSql ==
    /\ sqlArticle \in {[BaseArticle EXCEPT ![f] = x] : f \in TextKeys, x \in FieldValues}
    /\ sqlOut = NoStatement
    /\ dataFiles = "off" /\ proc = "off" /\ sqlgen = "off"
    /\ config = "off" /\ ckptFile = "off" /\ batchFiles = "off"
    /\ collected_urls = "off" /\ all_articles = "off" /\ articles = "off"
    /\ total_results = "off" /\ batch_num = "off" /\ date_offset = "off"
    /\ strategy_idx = "off" /\ original_query = "off" /\ phase = "off"
    /\ pc = "off" /\ last_call = "off" /\ requests = "off"
    /\ loaded_urls = "off" /\ run_batches = "off" /\ ever_persisted = "off"
    /\ last_saved = "off" /\ request_log = "off" /\ batch_unslept = "off"

GenerateInsertSql ==
    /\ sqlOut = NoStatement
    /\ sqlOut' = generate_insert_sql(<<Dict(sqlArticle)>>)
    /\ UNCHANGED sqlArticle

GenerateUpsertSql ==
    /\ sqlOut = NoStatement
    /\ sqlOut' = generate_upsert_sql(<<Dict(sqlArticle)>>)
    /\ UNCHANGED sqlArticle

NextSql ==
    \/ (GenerateInsertSql /\ UNCHANGED <<crawlVars, pipeVars>>)
    \/ (GenerateUpsertSql /\ UNCHANGED <<crawlVars, pipeVars>>)

SpecSql == InitSql /\ [][NextSql]_vars

(***************************************************************************)
(* Properties of the crawler.                                              *)
(***************************************************************************)
Urls(arts) == {arts[k].url : k \in 1..Len(arts)}
NoRepeatedUrl(arts) == \A j, k \in 1..Len(arts) : j # k => arts[j].url # arts[k].url
IsRequest == requests' = requests + 1
Running == pc \notin {"done", "raised"}

\* C1: every article a call of get_articles_batch returns has a non-empty URL
\* that was not in collected_urls when the call began and is no URL of an
\* earlier item of the same answer; so all_articles, the articles returned in
\* the run, never holds a URL twice, nor a URL of the loaded checkpoint.
C1_ReturnedBatch ==
    IsRequest /\ pc' # "raised" =>
        /\ \A k \in 1..Len(articles') :
              /\ articles'[k].url # NoUrl
              /\ articles'[k].url \notin collected_urls
        /\ NoRepeatedUrl(articles')
        /\ Urls(articles') \subseteq collected_urls'
C1_RunHasNoRepeat ==
    /\ NoRepeatedUrl(all_articles)
    /\ Urls(all_articles) \cap loaded_urls = {}
    /\ NoUrl \notin Urls(all_articles)
C1_NoUrlReturnedTwice == [][C1_ReturnedBatch]_vars /\ []C1_RunHasNoRepeat
\* a run that loaded a checkpoint has fetched a new batch in the date loop
C1_Witness ==
    /\ loaded_urls # {}
    /\ Len(run_batches) >= 1
    /\ phase = "date" /\ pc = "save_json"

\* C2: a complete checkpoint file holds every URL that any earlier complete
\* checkpoint file held, also in a run that started from a malformed file.
C2_PersistedOnlyGrows ==
    ckptFile.state = "ok" => ever_persisted \subseteq Range(ckptFile.urls)

\* C3: wherever the process may stop in a run, every batch fetched before the
\* one in hand has its file on disk and its URLs in the checkpoint file on disk.
InFlight == pc \in {"save_json", "ckpt_open", "ckpt_dump"}
EarlierBatches == IF InFlight THEN Len(run_batches) - 1 ELSE Len(run_batches)
C3_StopLosesOnlyInFlight ==
    Running =>
        \A k \in 1..EarlierBatches :
            /\ \E i \in 1..Len(batchFiles) :
                  batchFiles[i] = BatchFile(run_batches[k], k)
            /\ ckptFile.state = "ok"
            /\ Urls(run_batches[k]) \subseteq Range(ckptFile.urls)

\* C4: a request whose answer is a transport or HTTP failure, cannot be parsed,
\* lacks a field or has a status other than 'ok' makes get_articles_batch
\* return an empty list and a total of 0 without raising, and run goes on: to
\* the strategy loop, to the sleep that ends the strategy's iteration, or to
\* the next date offset.
C4_Step ==
    IsRequest /\ last_call'.exc # "none" =>
        /\ pc' # "raised"
        /\ articles' = <<>>
        /\ last_call'.total = 0
        /\ last_call'.kind \in FailureKinds \cup {"ok"}
        /\ phase = "default" => phase' = "strategy" /\ pc' = "fetch" /\ strategy_idx' = 1
        /\ phase = "strategy" => phase' = "strategy" /\ pc' = "sleep"
        /\ phase = "date" => phase' = "date" /\ pc' = "fetch" /\ date_offset' = date_offset + 1
C4_FailureYieldsEmptyBatch == [][C4_Step]_vars
C4_Witness ==
    /\ last_call.kind = "status_error" /\ last_call.exc = "Exception"
    /\ phase = "strategy" /\ pc = "sleep"
    /\ all_articles # <<>>

\* C8: after the first request of a run, a request is issued only while fewer
\* than max_total_articles articles were collected in the run, and a request
\* of the date loop only with an offset of at most days_back.
C8_Step ==
    IsRequest /\ requests >= 1 =>
        /\ Len(all_articles) < config.max_total_articles
        /\ phase = "date" => date_offset <= config.days_back
C8_NoRequestPastCap == [][C8_Step]_vars
\* the cap was reached while strategies were left, and run ended without them
C8_Witness ==
    /\ pc = "done"
    /\ config.max_total_articles >= 1
    /\ Len(all_articles) >= config.max_total_articles
    /\ strategy_idx <= Len(search_strategies)
    /\ date_offset <= config.days_back

\* C9: a crawler instance created after a completed save_checkpoint holds,
\* right after load_checkpoint, exactly the set that was saved.
JustLoaded == requests = 0 /\ phase = "default" /\ pc = "fetch"
C11_Step == IsRequest => ~batch_unslept
C11_SleepAfterEveryBatch == [][C11_Step]_vars

\* the requests of the log that carried the query q
RequestsWith(q) == {k \in 1..Len(request_log) : request_log[k].query = q}
\* the default fetch and the date-offset fetches carry the configured query,
\* and the configured query is back in self.config once the strategy loop is left
OriginalQueryKept ==
    /\ request_log # <<>> => request_log[1].query = ConfiguredQuery
    /\ \A k \in 1..Len(request_log) :
          request_log[k].date_offset >= 1 => request_log[k].query = ConfiguredQuery
    /\ phase = "date" => config.query = ConfiguredQuery

\* C12 as stated: a run (with a cap of at least 1) that has ended used every
\* search-strategy string as the query of exactly one request; the configured query is restored after
\* the strategy loop, and the default fetch and every date-offset fetch carry it.
C12_EveryStrategyExactlyOnce ==
    /\ pc = "done" /\ config.max_total_articles >= 1 =>
          \A i \in 1..Len(search_strategies) :
              Cardinality(RequestsWith(search_strategies[i])) = 1
    /\ OriginalQueryKept

\* C12, amended: the requests after the default fetch and before the date
\* loop carry the search strategies in list order, one request each, so no
\* strategy is used twice; every strategy is used unless the cap ended the
\* loop; the configured query is restored after the loop either way, and the
\* default fetch and every date-offset fetch carry it.
C12_StrategiesAtMostOnce ==
    /\ \A k \in 2..Len(request_log) :
          request_log[k].date_offset = 0 =>
              /\ k - 1 <= Len(search_strategies)
              /\ request_log[k].query = search_strategies[k - 1]
    /\ \A i \in 1..Len(search_strategies) :
          Cardinality(RequestsWith(search_strategies[i])) <= 1
    /\ phase = "date" /\ Len(all_articles) < config.max_total_articles =>
          \A i \in 1..Len(search_strategies) :
              Cardinality(RequestsWith(search_strategies[i])) = 1
    /\ OriginalQueryKept
\* the list was exhausted below the cap, and a date-offset fetch followed
C12_Witness ==
    /\ pc = "done"
    /\ Len(request_log) = 1 + Len(search_strategies) + 1
    /\ request_log[Len(request_log)] = [query |-> ConfiguredQuery, date_offset |-> 1]
    /\ all_articles # <<>>

\* the URLs of the articles in the batch files this run has written
SavedUrls == UNION {Urls(batchFiles[i].articles) : i \in 1..Len(batchFiles)}

\* C13: the URLs that entered collected_urls in this run are exactly the URLs
\* of the articles its fetches returned, so a fetch that fell back to the
\* empty result added none; and a checkpoint file written in this run holds,
\* beyond the URLs loaded at the start, only URLs of articles in a batch file.
C13_CollectedUrlsWereReturned ==
    /\ collected_urls \ loaded_urls = Urls(all_articles)
    /\ ckptFile.state = "ok" /\ batchFiles # <<>> =>
          Range(ckptFile.urls) \ loaded_urls \subseteq SavedUrls

\* the date-offset requests of the log, in order
DateRequests == SelectSeq(request_log, LAMBDA e : e.date_offset >= 1)
\* the k-th request of the date loop carries offset k, and between two
\* iterations date_offset stands one past the offset of the last request
DateOffsetsStepByOne ==
    /\ \A k \in 1..Len(DateRequests) : DateRequests[k].date_offset = k
    /\ phase = "date" /\ pc \in {"fetch", "sleep", "done"} =>
          date_offset = Len(DateRequests) + 1
\* the i-th batch file of the run carries batch number i
BatchNumbersInOrder == \A i \in 1..Len(batchFiles) : batchFiles[i].batch_num = i
MaxRequests == 1 + Len(search_strategies) + config.days_back

\* C14: run comes to its end whatever the API answers; it issues at most
\* 1 + 7 + days_back requests; every iteration of the date loop, with an empty
\* batch or not, moves the offset on by exactly 1; and the saved batches are
\* numbered 1, 2, 3, ... without gap or repeat.
C14_RunTerminates ==
    /\ <>(pc = "done")
    /\ [](requests <= MaxRequests)
    /\ []DateOffsetsStepByOne
    /\ []BatchNumbersInOrder
\* a run that used every request it may issue and saved two batches, the
\* second from the date loop
C14_Witness ==
    /\ pc = "done"
    /\ config.days_back >= 1
    /\ requests = MaxRequests
    /\ Len(batchFiles) >= 2
    /\ batchFiles[Len(batchFiles)].articles = articles

(***************************************************************************)
(* Properties of the normalizer and the SQL emitter.                       *)
(***************************************************************************)
\* the records of the files that hold articles, in scan order: the elements
\* of a list, or the one object of a file that holds a single article
RECURSIVE WellFormedRecords(_)
WellFormedRecords(files) ==
    IF files = <<>> THEN <<>>
    ELSE (IF Head(files).kind \in {"list", "object"}
          THEN [k \in 1..Len(Head(files).items) |-> Dict(Head(files).items[k])]
          ELSE <<>>) \o WellFormedRecords(Tail(files))
SomeBadFile ==
    \E k \in 1..Len(dataFiles) : dataFiles[k].kind \in {"corrupt", "null", "number", "string"}

\* C5: with a batch file that is no JSON, or is a JSON number, string or null,
\* both load_json_files return exactly the records of the other files and
\* neither stage is aborted by an exception.
C5_BadFilesAreSkipped ==
    SomeBadFile =>
        /\ proc.state # "off" =>
              /\ proc.state # "raised"
              /\ proc.state = "done" => proc.loaded = WellFormedRecords(dataFiles)
              /\ proc.state = "no_articles" => WellFormedRecords(dataFiles) = <<>>
        /\ sqlgen.state # "off" =>
              /\ sqlgen.state # "raised"
              /\ sqlgen.state = "done" => sqlgen.loaded = WellFormedRecords(dataFiles)
              /\ sqlgen.state = "no_articles" => WellFormedRecords(dataFiles) = <<>>

\* C6: the frame create_dataframe returns has exactly one row per url of the
\* normalized records; the row is the first record with that url (its
\* timestamp columns coerced), and the rows stand in input order.
FirstWithUrl(rows, u) == CHOOSE k \in 1..Len(rows) :
                            /\ rows[k].url = u
                            /\ \A j \in 1..(k - 1) : rows[j].url # u
C6_KeepsFirstPerUrl ==
    proc.state = "done" =>
        LET n == proc.normalized
            df == proc.df
        IN /\ {df[k].url : k \in 1..Len(df)} = {n[k].url : k \in 1..Len(n)}
           /\ \A j, k \in 1..Len(df) : j # k => df[j].url # df[k].url
           /\ \A k \in 1..Len(df) : df[k] = CoerceRow(n[FirstWithUrl(n, df[k].url)])
           /\ \A j, k \in 1..Len(df) :
                 j < k => FirstWithUrl(n, df[j].url) < FirstWithUrl(n, df[k].url)
\* three records, the url of the first again in the third under another title
C6_Witness ==
    /\ proc.state = "done"
    /\ Len(proc.normalized) = 3 /\ Len(proc.df) = 2
    /\ proc.normalized[1].url = proc.normalized[3].url
    /\ proc.normalized[1].title # proc.normalized[3].title

\* C10: when the batch files give no article, process_all and generate_all_sql
\* each report that no articles were found, return nothing and write no file.
NoArticleOnDisk ==
    \A k \in 1..Len(dataFiles) :
        \/ dataFiles[k].kind = "corrupt"
        \/ dataFiles[k].kind = "list" /\ dataFiles[k].items = <<>>
C10_NoArticlesNoOutput ==
    NoArticleOnDisk =>
        /\ proc.state # "off" =>
              proc.state = "no_articles" /\ proc.returned = "nothing" /\ proc.written = {}
        /\ sqlgen.state # "off" =>
              sqlgen.state = "no_articles" /\ sqlgen.returned = "nothing" /\ sqlgen.written = {}
\* both stages ran over a directory whose only files are an empty list and a corrupt file
C10_Witness ==
    /\ Len(dataFiles) = 2 /\ NoArticleOnDisk
    /\ dataFiles[1].kind = "list" /\ dataFiles[2].kind = "corrupt"
    /\ proc.state = "no_articles" /\ sqlgen.state = "no_articles"

\* C7: every text value in the VALUES list (url, title, description, source,
\* author, image_url, domain, the timestamps) is the word NULL or a
\* single-quoted literal in which every single quote is doubled.
RECURSIVE QuotesDoubled(_)
QuotesDoubled(x) ==
    IF x = <<>> THEN TRUE
    ELSE IF Head(x) = "'"
    THEN Len(x) >= 2 /\ x[2] = "'" /\ QuotesDoubled(SubSeq(x, 3, Len(x)))
    ELSE QuotesDoubled(Tail(x))
SafeLiteral(r) ==
    \/ r = <<"N","U","L","L">>
    \/ /\ Len(r) >= 2 /\ r[1] = "'" /\ r[Len(r)] = "'"
       /\ QuotesDoubled(SubSeq(r, 2, Len(r) - 1))
TextColumns == {c \in 1..Len(SqlColumns) :
                    SqlColumns[c] \notin {"word_count", "has_image", "has_author"}}
C7_ValuesAreEscaped ==
    \A k \in 1..Len(sqlOut.rows) : \A c \in TextColumns : SafeLiteral(sqlOut.rows[k][c])

====
